---- MODULE Spec2Model ----
(***************************************************************************)
(* Model of the DailyResearchUpdateAgent repository:                       *)
(*   - agents/orchestrator_agent.py   OrchestratorAgent.process_query      *)
(*   - mas_paper_search/agents/orchestrator_agent.py                       *)
(*                          process_daily_search_and_summarize             *)
(*   - core/long_term_memory.py       LongTermMemory                       *)
(*   - core/reflection_engine.py      ReflectionEngine                     *)
(* Python values are tagged records; collaborators (search, summarizer,    *)
(* interest agent, extraction, storage) are nondeterministic inputs.       *)
(***************************************************************************)
EXTENDS Integers, Sequences, FiniteSets, TLC

VARIABLES
    \* ---- core/long_term_memory.py ----
    data,        \* LongTermMemory.data, the in-memory document
    file,        \* content of memory_file on disk
    ltm_last,    \* the last LongTermMemory call and how it ended
    clock,       \* datetime.now() as a logical clock: the calls made so far
    write_failures,  \* writes of the file that failed so far
    submitted,   \* interest feedback passed to record_user_interest_feedback
    \* ---- agents/orchestrator_agent.py process_query ----
    pc,                          \* "idle" | "loop" | "done"
    keywords,                    \* the keywords argument
    max_papers,                  \* the max_papers argument
    papers_data,                 \* what search_papers returned
    idx,                         \* 1-based position of the for loop
    processed_papers_enhanced,   \* the result list under construction
    calls,                       \* collaborator calls made, in order
    ret,                         \* the returned value (or propagated exception)
    \* ---- mas_paper_search/agents/orchestrator_agent.py ----
    d_pc,                        \* "idle" | "query" | "paper" | "done"
    search_queries,              \* number of queries in the search_queries argument
    query_idx,                   \* 1-based position of the outer loop
    papers_to_process,           \* the papers of the current query
    paper_idx,                   \* 1-based position of the inner loop
    processed_papers_overall,    \* the result list
    d_calls,                     \* execute_task calls made, in order
    found,                       \* candidates returned by successful searches, in order
    \* ---- core/reflection_engine.py ----
    analysis,                    \* what analyze_summary_feedback returned
    suggestions,                 \* what get_summary_parameter_suggestions returned
    \* ---- mas_paper_search/database/chroma_utils.py ----
    _instance,                   \* ChromaDBManager._instance: 0 (None) or the instance's number
    _initialized,                \* the instance's _initialized
    collection,                  \* the instance's collection: "unset", "None" or "collection"
    index,                       \* the entries of the ChromaDB collection, by id
    init_attempts,               \* times the body of __init__ was run
    instances,                   \* ChromaDBManager objects created so far
    ch_clock,                    \* chroma calls made so far (also datetime.now())
    ch_last                      \* the last chroma call and its result

ltmVars == <<data, file, ltm_last, clock, write_failures, submitted>>
pqVars == <<pc, keywords, max_papers, papers_data, idx, processed_papers_enhanced, calls, ret>>
dVars == <<d_pc, search_queries, query_idx, papers_to_process, paper_idx,
           processed_papers_overall, d_calls, found>>
reVars == <<analysis, suggestions>>
chVars == <<_instance, _initialized, collection, index, init_attempts, instances,
            ch_clock, ch_last>>
vars == <<data, file, ltm_last, clock, write_failures, submitted, pc, keywords, max_papers, papers_data, idx,
          processed_papers_enhanced, calls, ret, d_pc, search_queries, query_idx,
          papers_to_process, paper_idx, processed_papers_overall, d_calls, found,
          analysis, suggestions, _instance, _initialized, collection, index,
          init_attempts, instances, ch_clock, ch_last>>

----------------------------------------------------------------------------
\* Bounds of the model
MaxKw == 2
MaxCands == 2
MaxQueries == 2
MaxPapers == 2
MaxOps == 3
MaxWriteFailures == 1

Min(a, b) == IF a <= b THEN a ELSE b

BoundedSeq(S, n) == UNION {[1..k -> S] : k \in 0..n}

ToSet(s) == {s[i] : i \in DOMAIN s}

\* Every list holding each element of S exactly once.
ListsOfSet(S) ==
    {s \in [1..Cardinality(S) -> S] : \A i, j \in DOMAIN s : i # j => s[i] # s[j]}

----------------------------------------------------------------------------
\* core/long_term_memory.py : the document

\* A JSON object is a function on its keys; {} and [] are <<>>.
Has(d, k) == k \in DOMAIN d

\* lines 37-46
_default_memory_structure ==
    [user_preferences |-> [preferred_keywords |-> <<>>, irrelevant_keywords |-> <<>>],
     feedback_on_papers |-> <<>>,
     user_interest_feedbacks |-> <<>>]

\* The file: absent, text that is not JSON (json.JSONDecodeError), bytes that
\* are not text in the encoding open() uses (UnicodeDecodeError, not a
\* JSONDecodeError), or holding a document.
FileAbsent == [kind |-> "absent", doc |-> <<>>]
FileCorrupt == [kind |-> "corrupt", doc |-> <<>>]
FileUndecodable == [kind |-> "undecodable", doc |-> <<>>]
FileOf(d) == [kind |-> "json", doc |-> d]

\* How a write of the file ends: it succeeds, open() fails and the file is
\* untouched, or the write fails after open() truncated the file.
WriteOutcomes == {"ok", "ioerror_open", "ioerror_write"}

\* lines 29-35: _save_memory_content; an IOError is caught and printed
_save_memory_content(f, memory_content, w) ==
    CASE w = "ok" -> FileOf(memory_content)
      [] w = "ioerror_open" -> f
      [] OTHER -> FileCorrupt

\* d.setdefault(k, v)
SetDefault(d, k, v) ==
    IF Has(d, k) THEN d ELSE [x \in DOMAIN d \cup {k} |-> IF x = k THEN v ELSE d[x]]

\* lines 7-27: LongTermMemory(memory_file) on file f; gives data and the file.
\* Line 18 catches json.JSONDecodeError only: any other error of json.load
\* leaves the constructor.
LongTermMemory(f, w) ==
    IF f.kind = "undecodable"
    THEN [data |-> <<>>, file |-> f, raised |-> TRUE, write |-> "none"]
    ELSE IF f.kind = "json"
    THEN [data |-> SetDefault(f.doc, "user_interest_feedbacks", <<>>), file |-> f,
          raised |-> FALSE, write |-> "none"]
    ELSE [data |-> SetDefault(_default_memory_structure, "user_interest_feedbacks", <<>>),
          file |-> _save_memory_content(f, _default_memory_structure, w),
          raised |-> FALSE, write |-> w]

\* The attributes a LongTermMemory object has (lines 12-110); looking up any
\* other name raises AttributeError.
LongTermMemoryMethods ==
    {"_load_memory", "_save_memory_content", "_default_memory_structure",
     "_save_memory", "add_preferred_keyword", "add_irrelevant_keyword",
     "record_paper_feedback", "get_user_preferences", "get_feedback_for_paper",
     "get_all_feedback", "record_user_interest_feedback",
     "get_user_interest_feedback"}

\* The result of a mutating call: the document, the file, whether it raised,
\* and how its write of the file ended ("none": it wrote nothing)
Result(d, f, raised, write) == [data |-> d, file |-> f, raised |-> raised, write |-> write]

\* self.<method>() saving the document d: the save when the method exists
CallSave(method, d, f, w) ==
    IF method \in LongTermMemoryMethods
    THEN Result(d, _save_memory_content(f, d, w), FALSE, w)
    ELSE Result(d, f, TRUE, "none")

\* A variant of lines 54 and 61 without the `keyword not in` test
AddKeyword_no_dedup(d, f, key, keyword, w) ==
    IF keyword = "" THEN Result(d, f, FALSE, "none")
    ELSE IF ~Has(d, "user_preferences") \/ ~Has(d.user_preferences, key)
    THEN Result(d, f, TRUE, "none")
    ELSE CallSave("_save_memory",
             [d EXCEPT !.user_preferences[key] = Append(@, keyword)], f, w)

\* lines 52-64: add_preferred_keyword / add_irrelevant_keyword on list key
AddKeyword(d, f, key, keyword, w) ==
    IF keyword = "" THEN Result(d, f, FALSE, "none")
    ELSE IF ~Has(d, "user_preferences") \/ ~Has(d.user_preferences, key)
    THEN Result(d, f, TRUE, "none")
    ELSE IF keyword \in ToSet(d.user_preferences[key]) THEN Result(d, f, FALSE, "none")
    ELSE CallSave("_save_memory",
             [d EXCEPT !.user_preferences[key] = Append(@, keyword)], f, w)

\* A variant of lines 84-87 that replaces the title's list by the new entry
RecordPaperFeedback_overwrite(d, f, paper_title, rating, comment, summary_text, now, w) ==
    IF paper_title = "" THEN Result(d, f, FALSE, "none")
    ELSE IF ~Has(d, "feedback_on_papers") THEN Result(d, f, TRUE, "none")
    ELSE LET feedback_entry ==
                 [rating |-> rating, comment |-> comment,
                  summary_reviewed |-> summary_text, timestamp |-> now]
             fb == SetDefault(d.feedback_on_papers, paper_title, <<>>)
         IN  CallSave("_save_memory",
                 [d EXCEPT !.feedback_on_papers =
                     [fb EXCEPT ![paper_title] = <<feedback_entry>>]], f, w)

\* A variant of lines 73-75 without the test of the title
RecordPaperFeedback_no_title_check(d, f, paper_title, rating, comment, summary_text, now, w) ==
    IF ~Has(d, "feedback_on_papers") THEN Result(d, f, TRUE, "none")
    ELSE LET feedback_entry ==
                 [rating |-> rating, comment |-> comment,
                  summary_reviewed |-> summary_text, timestamp |-> now]
             fb == SetDefault(d.feedback_on_papers, paper_title, <<>>)
         IN  CallSave("_save_memory",
                 [d EXCEPT !.feedback_on_papers =
                     [fb EXCEPT ![paper_title] = Append(@, feedback_entry)]], f, w)

\* lines 66-89: record_paper_feedback at time now
RecordPaperFeedback(d, f, paper_title, rating, comment, summary_text, now, w) ==
    IF paper_title = "" THEN Result(d, f, FALSE, "none")
    ELSE IF ~Has(d, "feedback_on_papers") THEN Result(d, f, TRUE, "none")
    ELSE LET feedback_entry ==
                 [rating |-> rating, comment |-> comment,
                  summary_reviewed |-> summary_text, timestamp |-> now]
             fb == SetDefault(d.feedback_on_papers, paper_title, <<>>)
         IN  CallSave("_save_memory",
                 [d EXCEPT !.feedback_on_papers =
                     [fb EXCEPT ![paper_title] = Append(@, feedback_entry)]], f, w)

\* lines 104-108: record_user_interest_feedback
RecordUserInterestFeedback(d, f, feedback_data, w) ==
    LET d1 == SetDefault(d, "user_interest_feedbacks", <<>>)
    IN  CallSave("save_memory",
            [d1 EXCEPT !.user_interest_feedbacks = Append(@, feedback_data)], f, w)

\* lines 91-93
get_user_preferences(d) ==
    IF Has(d, "user_preferences") THEN d.user_preferences
    ELSE _default_memory_structure.user_preferences

\* lines 95-97
get_feedback_for_paper(d, paper_title) ==
    IF Has(d.feedback_on_papers, paper_title) THEN d.feedback_on_papers[paper_title]
    ELSE <<>>

\* lines 110-123; "None" stands for the default argument
get_user_interest_feedback(d, paper_arxiv_id) ==
    LET feedbacks == IF Has(d, "user_interest_feedbacks")
                     THEN d.user_interest_feedbacks ELSE <<>>
    IN  IF paper_arxiv_id \in {"None", ""} THEN feedbacks
        ELSE SelectSeq(feedbacks, LAMBDA fb : fb.paper_arxiv_id = paper_arxiv_id)

\* core/reflection_engine.py
\* lines 39-49; p.get(key, [])
get_keyword_suggestions(d) ==
    LET preferences == get_user_preferences(d)
    IN  [preferred |-> IF Has(preferences, "preferred_keywords")
                       THEN preferences.preferred_keywords ELSE <<>>,
         irrelevant |-> IF Has(preferences, "irrelevant_keywords")
                        THEN preferences.irrelevant_keywords ELSE <<>>]

----------------------------------------------------------------------------
\* core/long_term_memory.py : the calls

Keywords == {"", "k1", "k2"}
Titles == {"", "t1", "t2"}
Ratings == {"good", "meh"}
InterestFeedbacks ==
    [paper_arxiv_id : {"p1", "p2"}, is_interesting : BOOLEAN]

\* A write may fail while fewer than MaxWriteFailures writes have failed.
Writes == IF write_failures < MaxWriteFailures THEN WriteOutcomes ELSE {"ok"}

\* A call with arguments arg and result r
LTMStep(op, arg, r) ==
    /\ clock < MaxOps
    /\ clock' = clock + 1
    /\ data' = r.data
    /\ file' = r.file
    /\ ltm_last' = [op |-> op, arg |-> arg, raised |-> r.raised]
    /\ write_failures' =
          IF r.write \in {"none", "ok"} THEN write_failures ELSE write_failures + 1

add_preferred_keyword(keyword, w) ==
    /\ LTMStep("add_preferred_keyword", <<keyword>>,
               AddKeyword(data, file, "preferred_keywords", keyword, w))
    /\ UNCHANGED <<submitted, pqVars, dVars, reVars, chVars>>

add_irrelevant_keyword(keyword, w) ==
    /\ LTMStep("add_irrelevant_keyword", <<keyword>>,
               AddKeyword(data, file, "irrelevant_keywords", keyword, w))
    /\ UNCHANGED <<submitted, pqVars, dVars, reVars, chVars>>

record_paper_feedback(paper_title, rating, w) ==
    /\ LTMStep("record_paper_feedback", <<paper_title, rating, "None", "None">>,
               RecordPaperFeedback(data, file, paper_title, rating, "None", "None",
                                   clock, w))
    /\ UNCHANGED <<submitted, pqVars, dVars, reVars, chVars>>

record_user_interest_feedback(feedback_data, w) ==
    /\ LTMStep("record_user_interest_feedback", <<feedback_data>>,
               RecordUserInterestFeedback(data, file, feedback_data, w))
    /\ submitted' = Append(submitted, feedback_data)
    /\ UNCHANGED <<pqVars, dVars, reVars, chVars>>

\* a new LongTermMemory object on the same file replaces the old one; if the
\* constructor raises there is no new object
new_LongTermMemory(w) ==
    /\ LET r == LongTermMemory(file, w)
       IN  LTMStep("LongTermMemory", <<>>, IF r.raised THEN [r EXCEPT !.data = data] ELSE r)
    /\ UNCHANGED <<submitted, pqVars, dVars, reVars, chVars>>

----------------------------------------------------------------------------
\* agents/orchestrator_agent.py : process_query

\* Python values passed as `keywords`: None, a str, or a list whose elements
\* are strings or non-strings ("#1" stands for the integer 1).
KwElems == {"a", "b", "#1"}
IsStr(e) == e # "#1"
KeywordArgs ==
    {[t |-> "None", s |-> "", l |-> <<>>],
     [t |-> "str", s |-> "", l |-> <<>>],
     [t |-> "str", s |-> "this is not a list", l |-> <<>>]}
    \cup {[t |-> "list", s |-> "", l |-> l] : l \in BoundedSeq(KwElems, MaxKw)}

\* Python truthiness of a keywords value
Truthy(k) ==
    CASE k.t = "None" -> FALSE
      [] k.t = "str" -> k.s # ""
      [] OTHER -> k.l # <<>>

ErrInvalidKeywords == "Error: Invalid keywords provided. Please provide a list of strings."
ErrNoKeywords == "Error: No keywords to search. Please provide keywords or set preferred keywords."
ErrSearchPrefix == "Error during Arxiv search: "
NoPapersFound == "No papers found for the given keywords."
DefaultSummaryError == "Error: Abstract not available for summarization."

\* Candidates as search_papers may return them: dicts (what process_query
\* expects) or PaperDetails objects (what ArxivSearchAgent.search_papers builds).
\* A dict's abstract is a text, empty, or None (rejected by PaperDetails).
Cands ==
    {[kind |-> "dict", abstract |-> a] : a \in {"text", "", "None"}}
    \cup {[kind |-> "PaperDetails", abstract |-> "text"]}

\* Behaviours of search_papers: raise, or return a list of candidates.
SearchBehaviours ==
    {[raises |-> TRUE, msg |-> "Arxiv Down", papers |-> <<>>]}
    \cup {[raises |-> FALSE, msg |-> "", papers |-> p] : p \in BoundedSeq(Cands, MaxCands)}

\* Behaviours of the per-paper collaborators.
SummarizerErrorString == "Error: Summarizer failed badly"
SummaryText == "Summary of paper."
SummaryErrorText == "Error: model produced nothing"
\* A collaborator's behaviour matters only if it is called: the summarizer
\* returns a Summary, returns an error string or raises; is_paper_interesting
\* answers yes or no or raises; extract_insights returns or raises.
PaperBehaviours ==
    {[summ |-> "raise", assess |-> "no", ins |-> "ok"]}
    \cup {[summ |-> s, assess |-> a, ins |-> "ok"] :
             s \in {"summary", "summary_err", "errstr"}, a \in {"yes", "no", "raise"}}
    \cup {[summ |-> s, assess |-> "yes", ins |-> "raise"] :
             s \in {"summary", "summary_err", "errstr"}}

\* One entry of the call history: the collaborator method, the candidate it
\* was called for (0 for the search), its argument, and how it ended.
Call(fn, cand, arg, raised, val) ==
    [fn |-> fn, cand |-> cand, arg |-> arg, raised |-> raised, val |-> val]

\* A variant of line 87 without set(): list(keywords + preferred)
effective_keywords_no_set(kw, d) ==
    {kw.l \o get_keyword_suggestions(d).preferred}

\* line 87: list(set(keywords + preferred)); the order of a set is unspecified
effective_keywords(kw, d) ==
    ListsOfSet(ToSet(kw.l \o get_keyword_suggestions(d).preferred))

\* line 107: papers_data[:max_papers]
Slice(s, m) ==
    IF m >= 0 THEN SubSeq(s, 1, Min(m, Len(s)))
    ELSE SubSeq(s, 1, IF Len(s) + m > 0 THEN Len(s) + m ELSE 0)

\* A variant of line 154 that extracts insights whatever the assessment says.
Interesting_always(assessment) == TRUE

\* line 154: interest_assessment.get("is_interesting")
Interesting(assessment) == assessment = "yes"

\* lines 108-169: one iteration of the for loop on candidate number i.
\* Result: the collaborator calls made, the items appended (none or one) and
\* whether an exception leaves process_query.
ProcessPaper(paper, i, beh) ==
    LET \* lines 109-116: paper_data.get(...) and PaperDetails(...)
        built == paper.kind = "dict" /\ paper.abstract # "None"
        \* lines 122-131
        summarized == built /\ paper.abstract # ""
        cSumm == IF summarized
                 THEN <<Call("summarize", i, <<>>, beh.summ = "raise", beh.summ)>>
                 ELSE <<>>
        summOK == built /\ (summarized => beh.summ # "raise")
        \* lines 134-147
        isSummary == summarized /\ beh.summ \in {"summary", "summary_err"}
        summary_text ==
            IF ~summarized THEN DefaultSummaryError
            ELSE CASE beh.summ = "summary" -> SummaryText
                   [] beh.summ = "summary_err" -> SummaryErrorText
                   [] OTHER -> SummarizerErrorString
        \* line 151
        cAssess == IF summOK
                   THEN <<Call("is_paper_interesting", i, <<>>, beh.assess = "raise", beh.assess)>>
                   ELSE <<>>
        assessOK == summOK /\ beh.assess # "raise"
        interesting == assessOK /\ Interesting(beh.assess)
        \* lines 153-157
        cIns == IF interesting
                THEN <<Call("extract_insights", i, <<>>, beh.ins = "raise", beh.ins)>>
                ELSE <<>>
        insOK == assessOK /\ (interesting => beh.ins # "raise")
        item == [cand |-> i,
                 summary_text |-> summary_text,
                 from_summarizer |-> isSummary,
                 is_interesting |-> interesting,
                 extracted_insights |-> IF interesting THEN <<"insight">> ELSE <<>>]
    IN  [calls |-> cSumm \o cAssess \o cIns,
         items |-> IF insOK THEN <<item>> ELSE <<>>,
         \* lines 166-169: the handler itself calls paper_data.get(...)
         propagates |-> ~insOK /\ paper.kind # "dict"]

\* A variant of lines 96-99 that swallows the search exception and goes on
\* as if nothing was found.
AfterSearch_swallow(sb, mp) ==
    IF sb.raises \/ sb.papers = <<>>
    THEN [ret |-> [kind |-> "str", msg |-> NoPapersFound], pc |-> "done", papers |-> <<>>]
    ELSE IF Slice(sb.papers, mp) = <<>>
    THEN [ret |-> [kind |-> "list", msg |-> ""], pc |-> "done", papers |-> sb.papers]
    ELSE [ret |-> [kind |-> "none", msg |-> ""], pc |-> "loop", papers |-> sb.papers]

\* A variant of lines 101-102 that returns the (empty) result list when the
\* search found nothing.
AfterSearch_empty_list(sb, mp) ==
    IF sb.raises
    THEN [ret |-> [kind |-> "str", msg |-> ErrSearchPrefix \o sb.msg],
          pc |-> "done", papers |-> <<>>]
    ELSE IF Slice(sb.papers, mp) = <<>>
    THEN [ret |-> [kind |-> "list", msg |-> ""], pc |-> "done", papers |-> sb.papers]
    ELSE [ret |-> [kind |-> "none", msg |-> ""], pc |-> "loop", papers |-> sb.papers]

\* lines 96-105: the outcome of the search call for behaviour sb
AfterSearch(sb, mp) ==
    IF sb.raises
    THEN [ret |-> [kind |-> "str", msg |-> ErrSearchPrefix \o sb.msg],
          pc |-> "done", papers |-> <<>>]
    ELSE IF sb.papers = <<>>
    THEN [ret |-> [kind |-> "str", msg |-> NoPapersFound], pc |-> "done", papers |-> <<>>]
    ELSE IF Slice(sb.papers, mp) = <<>>
    THEN [ret |-> [kind |-> "list", msg |-> ""], pc |-> "done", papers |-> sb.papers]
    ELSE [ret |-> [kind |-> "none", msg |-> ""], pc |-> "loop", papers |-> sb.papers]

\* lines 83-105: validation, effective keywords, search
process_query(kw, mp, sb) ==
    /\ pc = "idle"
    /\ keywords' = kw
    /\ max_papers' = mp
    /\ idx' = 1
    /\ processed_papers_enhanced' = <<>>
    /\ IF ~Truthy(kw) \/ kw.t # "list"
       THEN /\ ret' = [kind |-> "str", msg |-> ErrInvalidKeywords]
            /\ pc' = "done"
            /\ UNCHANGED <<calls, papers_data>>
       ELSE \E eff \in effective_keywords(kw, data) :
            IF eff = <<>>
            THEN /\ ret' = [kind |-> "str", msg |-> ErrNoKeywords]
                 /\ pc' = "done"
                 /\ UNCHANGED <<calls, papers_data>>
            ELSE /\ calls' = <<Call("search_papers", 0, eff, sb.raises, sb.msg)>>
                 /\ ret' = AfterSearch(sb, mp).ret
                 /\ pc' = AfterSearch(sb, mp).pc
                 /\ papers_data' = AfterSearch(sb, mp).papers
    /\ UNCHANGED <<ltmVars, dVars, reVars, chVars>>

\* lines 107-172: one loop iteration; after the last one the list is returned
process_paper(beh) ==
    /\ pc = "loop"
    /\ idx <= Len(Slice(papers_data, max_papers))
    /\ LET r == ProcessPaper(papers_data[idx], idx, beh)
       IN  /\ calls' = calls \o r.calls
           /\ processed_papers_enhanced' = processed_papers_enhanced \o r.items
           /\ idx' = idx + 1
           /\ IF r.propagates
              THEN /\ ret' = [kind |-> "raised", msg |-> "AttributeError"]
                   /\ pc' = "done"
              ELSE IF idx = Len(Slice(papers_data, max_papers))
              THEN /\ ret' = [kind |-> "list", msg |-> ""]
                   /\ pc' = "done"
              ELSE UNCHANGED <<ret, pc>>
    /\ UNCHANGED <<keywords, max_papers, papers_data>>
    /\ UNCHANGED <<ltmVars, dVars, reVars, chVars>>

----------------------------------------------------------------------------
\* mas_paper_search/agents/orchestrator_agent.py :
\* process_daily_search_and_summarize

\* mas_paper_search/core/base_agent.py AgentOutput, as the orchestrator reads
\* it: success, the payload under the stage's data key ("" also stands for a
\* missing key) and error_message ("None" stands for None).
AgentOutput(success, value, error_message) ==
    [success |-> success, value |-> value, error_message |-> error_message]

\* What the extraction and summarization agents may answer.
StageOutputs ==
    {AgentOutput(TRUE, "text", "None"),
     AgentOutput(TRUE, "", "None"),
     AgentOutput(FALSE, "", "agent error"),
     AgentOutput(FALSE, "", "None"),
     AgentOutput(FALSE, "text", "None")}

\* What the reflection agent may answer to store_paper_summary.
StoreOutputs ==
    {AgentOutput(TRUE, "", "None"),
     AgentOutput(FALSE, "", "Failed to store summary in ChromaDB."),
     AgentOutput(FALSE, "", "None")}

\* pdf_url of a paper as the search agent reports it ("None" stands for None).
PdfUrls == {"url", "None"}

\* What the search agent may answer: success and a list of papers.
SearchOutputs(n) ==
    {[success |-> ok, papers |-> ps] : ok \in BOOLEAN, ps \in BoundedSeq(PdfUrls, n)}

\* A variant of `error_message or "<default>"` that keeps a missing message.
ErrorOr_keep(error_message, default) == error_message

\* lines 82, 100, 138: error_message or "<default>"
ErrorOr(error_message, default) ==
    IF error_message \in {"None", ""} THEN default ELSE error_message

\* A variant of the stage checks that looks at success only.
StageFailed_success_only(out) == ~out.success

\* lines 79, 97: not output.success or not output.data.get(<key>)
StageFailed(out) == ~out.success \/ out.value = ""

DCall(fn, q, p, out) == [fn |-> fn, query |-> q, paper |-> p, out |-> out]

\* lines 53-143: one iteration of the inner loop, on paper p of query q
DailyPaper(q, p, pdf_url, ext, summ, store) ==
    LET current_paper_result ==
            [query |-> q, paper |-> p, pdf_url |-> pdf_url,
             status |-> "started", summary |-> "None", error |-> "None"]
        cExt == DCall("content_extraction", q, p, ext)
        cSumm == DCall("summarize", q, p, summ)
        cStore == DCall("reflection_store", q, p, store)
    IN  IF pdf_url \in {"None", ""}
        THEN [calls |-> <<>>,
              item |-> [current_paper_result EXCEPT
                          !.status = "skipped_no_pdf_url",
                          !.error = "No PDF URL provided by Arxiv."]]
        ELSE IF StageFailed(ext)
        THEN [calls |-> <<cExt>>,
              item |-> [current_paper_result EXCEPT
                          !.status = "failed_extraction",
                          !.error = ErrorOr(ext.error_message,
                              "Content extraction failed or returned no text.")]]
        ELSE IF StageFailed(summ)
        THEN [calls |-> <<cExt, cSumm>>,
              item |-> [current_paper_result EXCEPT
                          !.status = "failed_summarization",
                          !.error = ErrorOr(summ.error_message,
                              "Summarization failed or returned no summary.")]]
        ELSE IF ~store.success
        THEN [calls |-> <<cExt, cSumm, cStore>>,
              item |-> [current_paper_result EXCEPT
                          !.summary = summ.value,
                          !.status = "failed_storage",
                          !.error = ErrorOr(store.error_message,
                              "Failed to store summary.")]]
        ELSE [calls |-> <<cExt, cSumm, cStore>>,
              item |-> [current_paper_result EXCEPT
                          !.summary = summ.value,
                          !.status = "processed_and_stored"]]

\* lines 36-38: the call; with no query the empty list is returned at once
process_daily_search_and_summarize(nq) ==
    /\ d_pc = "idle"
    /\ search_queries' = nq
    /\ query_idx' = 1
    /\ d_pc' = IF nq = 0 THEN "done" ELSE "query"
    /\ UNCHANGED <<papers_to_process, paper_idx, processed_papers_overall, d_calls, found>>
    /\ UNCHANGED <<ltmVars, pqVars, reVars, chVars>>

\* lines 41-50: the search of the current query
daily_search(out) ==
    /\ d_pc = "query"
    /\ d_calls' = Append(d_calls, DCall("arxiv_search", query_idx, 0,
                          AgentOutput(out.success, "", "None")))
    /\ IF ~out.success \/ out.papers = <<>>
       THEN /\ query_idx' = query_idx + 1
            /\ d_pc' = IF query_idx = search_queries THEN "done" ELSE "query"
            /\ UNCHANGED <<papers_to_process, paper_idx, found>>
       ELSE /\ papers_to_process' = out.papers
            /\ paper_idx' = 1
            /\ found' = found \o [i \in 1..Len(out.papers) |-> <<query_idx, i>>]
            /\ d_pc' = "paper"
            /\ UNCHANGED query_idx
    /\ UNCHANGED <<search_queries, processed_papers_overall>>
    /\ UNCHANGED <<ltmVars, pqVars, reVars, chVars>>

\* lines 52-146: one paper; after the last paper of the last query the list
\* is returned (lines 148-149)
daily_paper(ext, summ, store) ==
    /\ d_pc = "paper"
    /\ LET r == DailyPaper(query_idx, paper_idx, papers_to_process[paper_idx],
                           ext, summ, store)
       IN  /\ d_calls' = d_calls \o r.calls
           /\ processed_papers_overall' = Append(processed_papers_overall, r.item)
    /\ IF paper_idx < Len(papers_to_process)
       THEN /\ paper_idx' = paper_idx + 1
            /\ UNCHANGED <<query_idx, d_pc>>
       ELSE /\ query_idx' = query_idx + 1
            /\ d_pc' = IF query_idx = search_queries THEN "done" ELSE "query"
            /\ UNCHANGED paper_idx
    /\ UNCHANGED <<search_queries, papers_to_process, found>>
    /\ UNCHANGED <<ltmVars, pqVars, reVars, chVars>>

DailyIdle ==
    /\ d_pc = "idle"
    /\ search_queries = 0
    /\ query_idx = 1
    /\ papers_to_process = <<>>
    /\ paper_idx = 1
    /\ processed_papers_overall = <<>>
    /\ d_calls = <<>>
    /\ found = <<>>

\* The documents the memory may hold when process_query runs: the default one,
\* or one with preferred and irrelevant keywords.
MemoryDocs ==
    {_default_memory_structure,
     [_default_memory_structure EXCEPT
         !.user_preferences = [preferred_keywords |-> <<"a", "c">>,
                               irrelevant_keywords |-> <<"b", "z">>]]}

\* Inputs of the runs that exercise the per-paper loop: a few keyword
\* arguments, every search behaviour.
LoopKeywordArgs ==
    {k \in KeywordArgs : k.t = "None" \/ (k.t = "list" /\ k.l \in {<<>>, <<"b">>})}

\* Inputs of the runs that exercise validation and the effective keywords:
\* every keyword argument, a search that raises, finds nothing or finds one paper.
KwSearchBehaviours ==
    {b \in SearchBehaviours : Len(b.papers) <= 1 /\ \A i \in DOMAIN b.papers : b.papers[i].abstract = "text"}

\* No call of the reflection engine has been made
NotCalled == [called |-> FALSE, raised |-> FALSE]
ReIdle ==
    /\ analysis = NotCalled
    /\ suggestions = NotCalled

\* chroma_utils.py line 11: no ChromaDBManager exists; the collection on disk
\* is empty
ChIdle ==
    /\ _instance = 0
    /\ _initialized = FALSE
    /\ collection = "unset"
    /\ index = <<>>
    /\ init_attempts = 0
    /\ instances = 0
    /\ ch_clock = 0
    /\ ch_last = [fn |-> "none"]

LTMIdle ==
    /\ file = FileOf(data)
    /\ ltm_last = [op |-> "LongTermMemory", arg |-> <<>>, raised |-> FALSE]
    /\ clock = 0
    /\ write_failures = 0
    /\ submitted = <<>>

PQIdle ==
    /\ pc = "idle"
    /\ keywords = [t |-> "None", s |-> "", l |-> <<>>]
    /\ max_papers = 0
    /\ papers_data = <<>>
    /\ idx = 1
    /\ processed_papers_enhanced = <<>>
    /\ calls = <<>>
    /\ ret = [kind |-> "none", msg |-> ""]

Init ==
    /\ data \in MemoryDocs
    /\ LTMIdle
    /\ PQIdle
    /\ DailyIdle
    /\ ReIdle
    /\ ChIdle

Next ==
    \/ \E kw \in LoopKeywordArgs, mp \in 0..MaxCands, sb \in SearchBehaviours :
          process_query(kw, mp, sb)
    \/ \E beh \in PaperBehaviours : process_paper(beh)

Spec == Init /\ [][Next]_vars

NextKw ==
    \/ \E kw \in KeywordArgs, mp \in 0..1, sb \in KwSearchBehaviours :
          process_query(kw, mp, sb)
    \/ \E beh \in PaperBehaviours : process_paper(beh)

SpecKw == Init /\ [][NextKw]_vars

InitDaily ==
    /\ data = _default_memory_structure
    /\ LTMIdle
    /\ PQIdle
    /\ DailyIdle
    /\ ReIdle
    /\ ChIdle

\* A run finds at most MaxPapers candidates over all its queries.
NextDaily ==
    \/ \E nq \in 0..MaxQueries : process_daily_search_and_summarize(nq)
    \/ \E out \in SearchOutputs(MaxPapers - Len(found)) : daily_search(out)
    \/ \E ext \in StageOutputs, summ \in StageOutputs, store \in StoreOutputs :
          daily_paper(ext, summ, store)

SpecDaily == InitDaily /\ [][NextDaily]_vars

\* A LongTermMemory constructed on a file that was absent or corrupt
InitLTM ==
    /\ \E f \in {FileAbsent, FileCorrupt} :
          /\ data = LongTermMemory(f, "ok").data
          /\ file = LongTermMemory(f, "ok").file
    /\ ltm_last = [op |-> "LongTermMemory", arg |-> <<>>, raised |-> FALSE]
    /\ clock = 0
    /\ write_failures = 0
    /\ submitted = <<>>
    /\ PQIdle
    /\ DailyIdle
    /\ ReIdle
    /\ ChIdle

NextLTM ==
    \/ \E k \in Keywords, w \in Writes : add_preferred_keyword(k, w)
    \/ \E k \in Keywords, w \in Writes : add_irrelevant_keyword(k, w)
    \/ \E t \in Titles, r \in Ratings, w \in Writes : record_paper_feedback(t, r, w)
    \/ \E fb \in InterestFeedbacks, w \in Writes : record_user_interest_feedback(fb, w)
    \/ \E w \in Writes : new_LongTermMemory(w)

SpecLTM == InitLTM /\ [][NextLTM]_vars

\* Documents an older version or a hand edit may have left in the file: {},
\* one without user_preferences, one without feedback_on_papers.
OlderDocs ==
    {<<>>,
     [feedback_on_papers |-> <<>>, user_interest_feedbacks |-> <<>>],
     [user_preferences |-> [preferred_keywords |-> <<>>, irrelevant_keywords |-> <<>>]]}

\* A LongTermMemory in use whose file has since been deleted or overwritten
\* from outside (as test_load_memory_corrupted_json does before it constructs
\* a second object), or is intact
InitLoad ==
    /\ data = LongTermMemory(FileAbsent, "ok").data
    /\ file \in {FileAbsent, FileCorrupt, FileUndecodable, FileOf(data)}
                   \cup {FileOf(d) : d \in OlderDocs}
    /\ ltm_last = [op |-> "LongTermMemory", arg |-> <<>>, raised |-> FALSE]
    /\ clock = 0
    /\ write_failures = 0
    /\ submitted = <<>>
    /\ PQIdle
    /\ DailyIdle
    /\ ReIdle
    /\ ChIdle

SpecLoad == InitLoad /\ [][NextLTM]_vars

----------------------------------------------------------------------------
\* Properties of process_query

SearchCalls == SelectSeq(calls, LAMBDA c : c.fn = "search_papers")
PaperCalls == SelectSeq(calls, LAMBDA c : c.fn # "search_papers")
NoDuplicates(s) == \A i, j \in DOMAIN s : i # j => s[i] # s[j]

\* A non-empty list of strings
ValidKeywords(k) ==
    k.t = "list" /\ k.l # <<>> /\ \A i \in DOMAIN k.l : IsStr(k.l[i])

\* C1: process_query never lets an exception reach its caller: whatever the
\* keywords and the collaborators' behaviour, a finished call has returned a
\* run-level string or a result list.
C1_NeverPropagates ==
    pc = "done" => ret.kind \in {"str", "list"}

\* C2: when the search found n >= 1 candidates, the finished call returns a
\* list of exactly min(n, max_papers) items, the i-th for the i-th candidate,
\* whatever failed while a candidate was processed, and no stage is invoked
\* for a candidate beyond the first max_papers.
C2_OneItemPerCandidate ==
    (pc = "done" /\ Len(papers_data) >= 1) =>
        /\ ret.kind = "list"
        /\ Len(processed_papers_enhanced) = Min(Len(papers_data), max_papers)
        /\ \A i \in DOMAIN processed_papers_enhanced :
               processed_papers_enhanced[i].cand = i
        /\ \A i \in DOMAIN calls : calls[i].cand <= max_papers

\* C7: keywords that are not a non-empty list of strings (None, a str, an
\* empty list, a list with a non-string element) give a run-level error
\* string, with no search and no per-item stage invoked.
C7_InvalidKeywordsRejected ==
    (pc # "idle" /\ ~ValidKeywords(keywords)) =>
        /\ pc = "done"
        /\ ret.kind = "str"
        /\ ret.msg \in {ErrInvalidKeywords, ErrNoKeywords}
        /\ calls = <<>>

\* C8: an empty keyword list with no preferred keywords in the store ends in
\* the 'no keywords to search' error, not in the invalid-keywords error.
C8_EmptyUnionError ==
    (pc = "done" /\ keywords.t = "list" /\ keywords.l = <<>>
        /\ get_keyword_suggestions(data).preferred = <<>>) =>
        ret = [kind |-> "str", msg |-> ErrNoKeywords]

\* C9: for a valid keyword list the search is invoked exactly once, with a
\* collection that holds each element of (caller keywords union preferred
\* keywords) exactly once and nothing else (no irrelevant keyword is added).
C9_SearchOnceWithUnion ==
    (pc # "idle" /\ ValidKeywords(keywords)) =>
        /\ Len(SearchCalls) = 1
        /\ ToSet(SearchCalls[1].arg) =
               ToSet(keywords.l) \cup ToSet(data.user_preferences.preferred_keywords)
        /\ NoDuplicates(SearchCalls[1].arg)

\* C9 witness: the caller repeats a keyword that is also preferred, the store
\* holds irrelevant keywords, and the search has been called.
C9_Witness ==
    /\ pc # "idle"
    /\ keywords.l = <<"a", "a">>
    /\ data.user_preferences.preferred_keywords = <<"a", "c">>
    /\ data.user_preferences.irrelevant_keywords # <<>>
    /\ Len(SearchCalls) = 1

\* C10: if the search raises, the call returns the single search-error string
\* carrying the error's message, not a list, and no summarization, interest
\* assessment or insight extraction happens in that run.
C10_SearchErrorIsRunLevel ==
    \A i \in DOMAIN calls :
        (calls[i].fn = "search_papers" /\ calls[i].raised) =>
            /\ pc = "done"
            /\ ret = [kind |-> "str", msg |-> ErrSearchPrefix \o calls[i].val]
            /\ PaperCalls = <<>>
            /\ processed_papers_enhanced = <<>>

\* C10 witness: a search that raised "Arxiv Down".
C10_Witness ==
    /\ pc = "done"
    /\ Len(calls) = 1
    /\ calls[1].fn = "search_papers" /\ calls[1].raised
    /\ ret.msg = "Error during Arxiv search: Arxiv Down"

\* The error outcomes of a run: lines 84, 90 and 99 (for each message a
\* search may raise with)
ErrorOutcomes ==
    {ErrInvalidKeywords, ErrNoKeywords}
    \cup {ErrSearchPrefix \o sb.msg : sb \in {b \in SearchBehaviours : b.raises}}

\* C11: when the search returns zero candidates the call returns the
\* 'no results' outcome, which is not a list and differs from every error
\* outcome, and no per-item stage is invoked.
C11_NoResultsOutcome ==
    (Len(SearchCalls) = 1 /\ ~SearchCalls[1].raised /\ papers_data = <<>>) =>
        /\ pc = "done"
        /\ ret.kind = "str"
        /\ ret.msg = NoPapersFound
        /\ ret.msg \notin ErrorOutcomes
        /\ PaperCalls = <<>>
        /\ processed_papers_enhanced = <<>>

\* C11 witness: a search that returned an empty list.
C11_Witness ==
    /\ pc = "done"
    /\ Len(calls) = 1
    /\ calls[1].fn = "search_papers" /\ ~calls[1].raised
    /\ papers_data = <<>>
    /\ ret.msg = "No papers found for the given keywords."

\* The calls of one per-paper collaborator made for candidate i
CallsFor(fn, i) == SelectSeq(calls, LAMBDA c : c.fn = fn /\ c.cand = i)

\* Position in calls of the first call of fn for candidate i
PosIn(fn, i) == CHOOSE k \in DOMAIN calls : calls[k].fn = fn /\ calls[k].cand = i

\* The candidates the loop has handled so far
Handled == {i \in DOMAIN papers_data : pc # "idle" /\ i < idx}

\* The items of the result list that stand for candidate i
ItemsFor(i) == SelectSeq(processed_papers_enhanced, LAMBDA it : it.cand = i)

\* C12: for each candidate, extract_insights is invoked exactly once if
\* is_paper_interesting reported is_interesting = true for it and not at all
\* otherwise, never before the candidate's assessment; an item whose insights
\* were not extracted has the empty list as extracted_insights.
C12_InsightsOnlyIfInteresting ==
    /\ \A i \in DOMAIN papers_data :
          LET a == CallsFor("is_paper_interesting", i)
              x == CallsFor("extract_insights", i)
          IN  /\ Len(a) <= 1
              /\ Len(x) = IF Len(a) = 1 /\ ~a[1].raised /\ a[1].val = "yes"
                          THEN 1 ELSE 0
              /\ Len(x) = 1 =>
                     PosIn("is_paper_interesting", i) < PosIn("extract_insights", i)
    /\ \A k \in DOMAIN processed_papers_enhanced :
          LET it == processed_papers_enhanced[k]
          IN  CallsFor("extract_insights", it.cand) = <<>> =>
                  it.extracted_insights = <<>>

\* C12 witness: a returned list where one candidate was found interesting and
\* had its insights extracted, and another was not and has none.
C12_Witness ==
    /\ pc = "done" /\ ret.kind = "list"
    /\ \E i, j \in DOMAIN papers_data :
          /\ CallsFor("is_paper_interesting", i)  # <<>>
          /\ CallsFor("is_paper_interesting", i)[1].val = "yes"
          /\ Len(CallsFor("extract_insights", i)) = 1
          /\ Len(ItemsFor(i)) = 1
          /\ CallsFor("is_paper_interesting", j) # <<>>
          /\ CallsFor("is_paper_interesting", j)[1].val = "no"
          /\ CallsFor("extract_insights", j) = <<>>
          /\ Len(ItemsFor(j)) = 1 /\ ItemsFor(j)[1].extracted_insights = <<>>

\* C13: is_paper_interesting is invoked for a candidate only after the
\* summarizer returned a Summary for it; a candidate with an empty abstract
\* (never summarized) or whose summarizer returned an error string is never
\* assessed and never has insights extracted.
C13_AssessOnlyAfterSummary ==
    \A k \in DOMAIN calls :
        calls[k].fn \in {"is_paper_interesting", "extract_insights"} =>
            \E j \in 1..(k - 1) :
                /\ calls[j].fn = "summarize"
                /\ calls[j].cand = calls[k].cand
                /\ ~calls[j].raised
                /\ calls[j].val \in {"summary", "summary_err"}

\* The sentinel test_process_query_summarizer_returns_error_string and
\* test_process_query_paper_with_no_abstract expect as summary_text
ErrSentinel == "Error: Abstract not available or summarization failed."

\* C14: a candidate with an empty abstract is never passed to the summarizer
\* and still has an item in the result list, whose summary_text is
\* "Error: Abstract not available or summarization failed."
C14_EmptyAbstractSentinel ==
    \A i \in Handled :
        papers_data[i].abstract = "" =>
            /\ CallsFor("summarize", i) = <<>>
            /\ Len(ItemsFor(i)) = 1
            /\ ItemsFor(i)[1].summary_text = ErrSentinel

\* C15: when the summarizer returns an error string for a candidate, the
\* candidate's item holds a Summary whose summary_text is the fixed sentinel
\* "Error: Abstract not available or summarization failed.", not the string
\* the summarizer returned.
C15_ErrorStringSentinel ==
    \A i \in Handled :
        (CallsFor("summarize", i) # <<>> /\ CallsFor("summarize", i)[1].val = "errstr") =>
            /\ Len(ItemsFor(i)) = 1
            /\ ItemsFor(i)[1].summary_text = ErrSentinel
            /\ ItemsFor(i)[1].summary_text # SummarizerErrorString

----------------------------------------------------------------------------
\* Properties of process_daily_search_and_summarize

TerminalStatuses ==
    {"skipped_no_pdf_url", "failed_extraction", "failed_summarization",
     "failed_storage", "processed_and_stored"}

\* The candidates the items of the result list stand for, in list order
ItemCandidates ==
    [i \in DOMAIN processed_papers_overall |->
        <<processed_papers_overall[i].query, processed_papers_overall[i].paper>>]

IsPrefix(s, t) == Len(s) <= Len(t) /\ SubSeq(t, 1, Len(s)) = s

\* The calls of one stage made for the candidate of item it
StageCalls(fn, it) ==
    SelectSeq(d_calls, LAMBDA c : c.fn = fn /\ c.query = it.query /\ c.paper = it.paper)

\* A stage answered with success and a non-empty payload
Succeeded(c) == c.out.success /\ c.out.value # ""

\* Position of the only call of a stage for item it in d_calls
PosOf(fn, it) ==
    CHOOSE k \in DOMAIN d_calls :
        d_calls[k].fn = fn /\ d_calls[k].query = it.query /\ d_calls[k].paper = it.paper

\* C3: every item of the result list has a terminal status (never "started"),
\* every candidate returned by a successful search has exactly one item (in
\* discovery order), and an item's error is None exactly when its status is
\* processed_and_stored.
C3_TerminalStatusPerCandidate ==
    /\ \A i \in DOMAIN processed_papers_overall :
          LET it == processed_papers_overall[i]
          IN  /\ it.status \in TerminalStatuses
              /\ (it.error = "None") <=> (it.status = "processed_and_stored")
    /\ IsPrefix(ItemCandidates, found)
    /\ d_pc \in {"done", "query"} => ItemCandidates = found

\* C3 witness: a returned list with a stored item and a failed item.
C3_Witness ==
    /\ d_pc = "done"
    /\ Len(processed_papers_overall) = 2
    /\ processed_papers_overall[1].status = "failed_storage"
    /\ processed_papers_overall[2].status = "processed_and_stored"

\* C4: the stages of a candidate are gated: extraction runs only with a
\* document URL, summarization only after an extraction that succeeded with
\* text, storage only after a summarization that succeeded with a summary;
\* the status names the first stage that failed or returned nothing, and is
\* processed_and_stored exactly when all three stages succeeded.
C4_StagesGated ==
    /\ \A k \in DOMAIN d_calls :
          d_calls[k].fn # "arxiv_search" =>
              \E i \in DOMAIN processed_papers_overall :
                  /\ processed_papers_overall[i].query = d_calls[k].query
                  /\ processed_papers_overall[i].paper = d_calls[k].paper
    /\ \A i \in DOMAIN processed_papers_overall :
          LET it == processed_papers_overall[i]
              ext == StageCalls("content_extraction", it)
              summ == StageCalls("summarize", it)
              store == StageCalls("reflection_store", it)
          IN  /\ Len(ext) <= 1 /\ Len(summ) <= 1 /\ Len(store) <= 1
              /\ Len(ext) = 1 <=> it.pdf_url \notin {"None", ""}
              /\ Len(summ) = 1 <=>
                     (Len(ext) = 1 /\ Succeeded(ext[1])
                        /\ PosOf("content_extraction", it) < PosOf("summarize", it))
              /\ Len(store) = 1 <=>
                     (Len(summ) = 1 /\ Succeeded(summ[1])
                        /\ PosOf("summarize", it) < PosOf("reflection_store", it))
              /\ it.status = "skipped_no_pdf_url" <=> Len(ext) = 0
              /\ it.status = "failed_extraction" <=>
                     (Len(ext) = 1 /\ ~Succeeded(ext[1]))
              /\ it.status = "failed_summarization" <=>
                     (Len(summ) = 1 /\ ~Succeeded(summ[1]))
              /\ it.status = "failed_storage" <=>
                     (Len(store) = 1 /\ ~store[1].out.success)
              /\ it.status = "processed_and_stored" <=>
                     (Len(store) = 1 /\ store[1].out.success)

\* C4 witness: an extraction that succeeded with no text stopped one candidate,
\* and another candidate went through all three stages.
C4_Witness ==
    \E i, j \in DOMAIN processed_papers_overall :
        /\ processed_papers_overall[i].status = "failed_extraction"
        /\ StageCalls("content_extraction", processed_papers_overall[i])[1].out.success
        /\ processed_papers_overall[j].status = "processed_and_stored"

----------------------------------------------------------------------------
\* Properties of LongTermMemory

\* C5: while the writes of the file succeed, every add_preferred_keyword,
\* add_irrelevant_keyword, record_paper_feedback and
\* record_user_interest_feedback call completes, and after it the persisted
\* document equals the in-memory one, so that a new LongTermMemory on the same
\* file observes everything added so far.
C5_PersistedAfterEveryCall ==
    write_failures = 0 =>
        /\ ~ltm_last.raised
        /\ file = FileOf(data)
        /\ LongTermMemory(file, "ok").data = data

\* C6: interest feedback is append-only and never deduplicated: every
\* record_user_interest_feedback call completes, and afterwards
\* get_user_interest_feedback(id) returns exactly the submissions made for id,
\* in submission order (two identical submissions give two entries).
C6_InterestFeedbackAppendOnly ==
    (write_failures = 0 /\ ltm_last.op = "record_user_interest_feedback") =>
        /\ ~ltm_last.raised
        /\ \A id \in {"p1", "p2"} :
               get_user_interest_feedback(data, id) =
                   SelectSeq(submitted, LAMBDA fb : fb.paper_arxiv_id = id)

\* A step that is the call op
IsCall(op) == ltm_last'.op = op /\ clock' = clock + 1

\* What a step that is an add call on list key must do: nothing when the
\* keyword is empty or in the list, append it (and persist it, if the write
\* succeeds) otherwise.
AddStep(op, key) ==
    IsCall(op) =>
        LET k == ltm_last'.arg[1]
            old == data.user_preferences[key]
        IN  /\ ~ltm_last'.raised
            /\ IF k = "" \/ k \in ToSet(old)
               THEN data' = data /\ file' = file
               ELSE /\ data' = [data EXCEPT !.user_preferences[key] = Append(old, k)]
                    /\ write_failures' = write_failures => file' = FileOf(data')

\* No call on the same object removes or reorders the keywords of list key.
KeepsOrder(key) ==
    (clock' = clock + 1 /\ ltm_last'.op # "LongTermMemory") =>
        IsPrefix(data.user_preferences[key], data'.user_preferences[key])

\* C16: add_preferred_keyword(k) and add_irrelevant_keyword(k) change nothing
\* (list, rest of the document, file) when k is empty or already in the
\* list, and append k at the end otherwise; so each list never holds a
\* duplicate and keeps its keywords in order of first insertion.
C16_AddKeywordIdempotent ==
    /\ [](/\ NoDuplicates(data.user_preferences.preferred_keywords)
          /\ NoDuplicates(data.user_preferences.irrelevant_keywords))
    /\ [][/\ AddStep("add_preferred_keyword", "preferred_keywords")
          /\ AddStep("add_irrelevant_keyword", "irrelevant_keywords")
          /\ KeepsOrder("preferred_keywords")
          /\ KeepsOrder("irrelevant_keywords")]_vars

\* C16 witness: k1 was added, then k2, and the last call added k1 again.
C16_Witness ==
    /\ ltm_last.op = "add_preferred_keyword"
    /\ ltm_last.arg = <<"k1">>
    /\ clock = 3
    /\ data.user_preferences.preferred_keywords = <<"k1", "k2">>

\* C17: for every non-empty title, each record_paper_feedback(title, ...)
\* call appends one entry with the call's rating, comment and reviewed
\* summary to what get_feedback_for_paper(title) returns, and no other call
\* changes it; so after N calls it returns N entries in call order, and a
\* title never recorded returns the empty list.
C17_FeedbackPerTitleInOrder ==
    /\ \A t \in Titles \ {""} : get_feedback_for_paper(data, t) = <<>>
    /\ [][clock' = clock + 1 =>
            \A t \in Titles \ {""} :
                LET before == get_feedback_for_paper(data, t)
                    after == get_feedback_for_paper(data', t)
                IN  IF ltm_last'.op = "record_paper_feedback" /\ ltm_last'.arg[1] = t
                    THEN /\ ~ltm_last'.raised
                         /\ Len(after) = Len(before) + 1
                         /\ SubSeq(after, 1, Len(before)) = before
                         /\ after[Len(after)].rating = ltm_last'.arg[2]
                         /\ after[Len(after)].comment = ltm_last'.arg[3]
                         /\ after[Len(after)].summary_reviewed = ltm_last'.arg[4]
                    ELSE (ltm_last'.op # "LongTermMemory" \/ write_failures' = 0) =>
                             after = before]_vars

\* C17 witness: two entries for t1, recorded before and after one for t2.
C17_Witness ==
    /\ Len(get_feedback_for_paper(data, "t1")) = 2
    /\ get_feedback_for_paper(data, "t1")[1].rating = "good"
    /\ get_feedback_for_paper(data, "t1")[2].rating = "meh"
    /\ Len(get_feedback_for_paper(data, "t2")) = 1
    /\ get_feedback_for_paper(data, "t2")[1].timestamp = 1

\* C18: record_paper_feedback with an empty title does not raise and leaves
\* the in-memory document (preferences, feedback map, interest feedback) and
\* the persisted document exactly as they were.
C18_EmptyTitleNoOp ==
    [][(IsCall("record_paper_feedback") /\ ltm_last'.arg[1] = "") =>
          /\ ~ltm_last'.raised
          /\ data' = data
          /\ file' = file]_vars

\* C18 witness: a call with an empty title on a memory that holds feedback.
C18_Witness ==
    /\ ltm_last.op = "record_paper_feedback"
    /\ ltm_last.arg[1] = ""
    /\ get_feedback_for_paper(data, "t1") # <<>>

\* Identifiers a caller may pass to get_user_interest_feedback
PassedIds == {"", "p1", "p2", "p3"}

\* C19: for every identifier passed, get_user_interest_feedback(id) returns
\* exactly the stored records whose paper_arxiv_id equals id, in stored order
\* (the empty list when there is none), never a record of another identifier.
C19_ExactIdentifierMatch ==
    \A id \in PassedIds :
        get_user_interest_feedback(data, id) =
            SelectSeq(data.user_interest_feedbacks, LAMBDA fb : fb.paper_arxiv_id = id)

\* C20: constructing a LongTermMemory on a file whose content is not valid
\* JSON does not raise, gives the default document in memory, and (the write
\* succeeding) writes the default back, so that the next construction loads
\* the default document.
C20_CorruptFileLoadsDefault ==
    [][(/\ IsCall("LongTermMemory")
        /\ file.kind \in {"corrupt", "undecodable"}
        /\ write_failures' = write_failures) =>
          /\ ~ltm_last'.raised
          /\ data' = _default_memory_structure
          /\ file' = FileOf(_default_memory_structure)
          /\ LongTermMemory(file', "ok").data = _default_memory_structure]_vars

\* The calls the claims on write failures and on older documents are about
KeywordAndFeedbackCalls ==
    {"add_preferred_keyword", "add_irrelevant_keyword", "record_paper_feedback"}

\* C21: when the write of the file fails with an I/O error, the keyword and
\* feedback calls do not raise, the in-memory document holds the mutation,
\* and the file keeps the content it had before the call.
C21_WriteFailureKeepsFile ==
    [][(/\ clock' = clock + 1
        /\ ltm_last'.op \in KeywordAndFeedbackCalls
        /\ write_failures' = write_failures + 1) =>
          /\ ~ltm_last'.raised
          /\ data' # data
          /\ file' = file]_vars

\* C22: the preferred and the irrelevant keywords are disjoint in every
\* reachable state.
C22_KeywordListsDisjoint ==
    ToSet(data.user_preferences.preferred_keywords)
        \cap ToSet(data.user_preferences.irrelevant_keywords) = {}

\* A document with user_preferences (both lists), feedback_on_papers and
\* user_interest_feedbacks
WellFormed(d) ==
    /\ Has(d, "user_preferences")
    /\ Has(d.user_preferences, "preferred_keywords")
    /\ Has(d.user_preferences, "irrelevant_keywords")
    /\ Has(d, "feedback_on_papers")
    /\ Has(d, "user_interest_feedbacks")

\* C28: a LongTermMemory constructed on a file that parses as JSON holds a
\* document with user_preferences (both lists), feedback_on_papers and
\* user_interest_feedbacks, so that the later keyword and feedback calls do
\* not raise.
C28_LoadedDocumentWellFormed ==
    /\ (ltm_last.op = "LongTermMemory" /\ ~ltm_last.raised) => WellFormed(data)
    /\ ltm_last.op \in KeywordAndFeedbackCalls => ~ltm_last.raised

\* ======================================================================
\* core/reflection_engine.py: ReflectionEngine over the LongTermMemory
\* document
\* ======================================================================

MaxFb == 3

\* Ratings found in feedback entries: the five recognised labels, an
\* unrecognised one, a capitalised one, and the non-strings
\* record_paper_feedback also stores: "#4" is the integer 4, "None" is None
RatingLabels ==
    {"excellent", "good", "neutral", "bad", "poor", "meh", "Good", "#4", "None"}

IsString(rating) == rating \notin {"#4", "None"}

\* str.lower() on the labels above
Lower(rating) == IF rating = "Good" THEN "good" ELSE rating

\* rating_map.get(label): 0 stands for None (no such key)
rating_map(label) ==
    CASE label = "good" -> 4
      [] label = "excellent" -> 5
      [] label = "neutral" -> 3
      [] label = "bad" -> 2
      [] label = "poor" -> 1
      [] OTHER -> 0

\* Mutant of Counted: every entry is counted, unrecognised ones with value 0
Counted_always(rating_value) == TRUE

\* `if rating_value:`
Counted(rating_value) == rating_value # 0

\* The titles of feedback_on_papers in the order the dict holds them
TitleOrder(fb) == SelectSeq(<<"t1", "t2">>, LAMBDA t : t \in DOMAIN fb)

\* The entries of all titles, in iteration order
RECURSIVE AllEntries(_, _)
AllEntries(fb, titles) ==
    IF titles = <<>> THEN <<>>
    ELSE fb[Head(titles)] \o AllEntries(fb, Tail(titles))

RECURSIVE Sum(_)
Sum(s) == IF s = <<>> THEN 0 ELSE Head(s) + Sum(Tail(s))

\* The values of all_ratings after the loops
all_ratings(entries) ==
    LET values == [i \in DOMAIN entries |-> rating_map(Lower(entries[i].rating))]
    IN SelectSeq(values, Counted)

NotEnoughFeedback == "Not enough feedback to analyze summary ratings."

\* An average is the exact quotient <<sum, count>>; <<0, 0>> is None
NoneAverage == <<0, 0>>

\* analyze_summary_feedback(): raised is the AttributeError of .lower() on a
\* rating that is no string
AnalyzeSummaryFeedback(d) ==
    LET fb == d.feedback_on_papers
        entries == AllEntries(fb, TitleOrder(fb))
    IN IF \E i \in DOMAIN entries : ~IsString(entries[i].rating)
       THEN [called |-> TRUE, raised |-> TRUE]
       ELSE LET ratings == all_ratings(entries)
            IN IF ratings = <<>>
               THEN [called |-> TRUE, raised |-> FALSE,
                     average_summary_rating |-> NoneAverage,
                     message |-> NotEnoughFeedback]
               ELSE [called |-> TRUE, raised |-> FALSE,
                     average_summary_rating |-> <<Sum(ratings), Len(ratings)>>,
                     message |-> "None"]

SuggestShorter == "Consider trying shorter, more concise summaries if possible."
SuggestKeep == "Current summarization approach seems well-received."
NotEnoughData == "Not enough data for summary parameter suggestions."

\* Mutant of LowAverage: the lower threshold is inclusive
LowAverage_inclusive(avg_rating) == 10 * avg_rating[1] <= 28 * avg_rating[2]

\* avg_rating < 2.8
LowAverage(avg_rating) == 10 * avg_rating[1] < 28 * avg_rating[2]

\* avg_rating > 4.0
HighAverage(avg_rating) == avg_rating[1] > 4 * avg_rating[2]

\* get_summary_parameter_suggestions()
GetSummaryParameterSuggestions(d) ==
    LET summary_analysis == AnalyzeSummaryFeedback(d)
    IN IF summary_analysis.raised THEN [called |-> TRUE, raised |-> TRUE]
       ELSE LET avg_rating == summary_analysis.average_summary_rating
            IN IF avg_rating # NoneAverage /\ LowAverage(avg_rating)
               THEN [called |-> TRUE, raised |-> FALSE,
                     suggestion |-> SuggestShorter, avg_rating |-> avg_rating]
               ELSE IF avg_rating # NoneAverage /\ HighAverage(avg_rating)
               THEN [called |-> TRUE, raised |-> FALSE,
                     suggestion |-> SuggestKeep, avg_rating |-> avg_rating]
               ELSE [called |-> TRUE, raised |-> FALSE,
                     suggestion |-> NotEnoughData, avg_rating |-> avg_rating]

analyze_summary_feedback ==
    /\ ~analysis.called
    /\ analysis' = AnalyzeSummaryFeedback(data)
    /\ UNCHANGED <<ltmVars, pqVars, dVars, suggestions, chVars>>

get_summary_parameter_suggestions ==
    /\ ~suggestions.called
    /\ suggestions' = GetSummaryParameterSuggestions(data)
    /\ UNCHANGED <<ltmVars, pqVars, dVars, analysis, chVars>>

\* The entry record_paper_feedback appends for a rating
FeedbackEntry(rating, now) ==
    [rating |-> rating, comment |-> "None", summary_reviewed |-> "None",
     timestamp |-> now]

EntriesOf(ratings) == [i \in DOMAIN ratings |-> FeedbackEntry(ratings[i], i)]

\* Ratings of the second title: enough to put the average on and around
\* the thresholds
OtherTitleRatings ==
    {<<>>, <<"bad", "bad">>, <<"excellent", "poor">>, <<"meh">>}

\* feedback_on_papers as record_paper_feedback calls leave it: a title is
\* a key once it has an entry
FeedbackMaps ==
    {[t \in {x \in {"t1", "t2"} : (IF x = "t1" THEN r1 ELSE r2) # <<>>} |->
         EntriesOf(IF t = "t1" THEN r1 ELSE r2)] :
       r1 \in BoundedSeq(RatingLabels, MaxFb), r2 \in OtherTitleRatings}

InitReflect ==
    /\ data \in {[_default_memory_structure EXCEPT !.feedback_on_papers = fb] :
                    fb \in FeedbackMaps}
    /\ LTMIdle
    /\ PQIdle
    /\ DailyIdle
    /\ ReIdle
    /\ ChIdle

NextReflect ==
    \/ analyze_summary_feedback
    \/ get_summary_parameter_suggestions

SpecReflect == InitReflect /\ [][NextReflect]_vars

\* ---- properties of the reflection engine ----

\* Every rating of the document is a string
AllStrings ==
    \A t \in DOMAIN data.feedback_on_papers :
        \A i \in DOMAIN data.feedback_on_papers[t] :
            IsString(data.feedback_on_papers[t][i].rating)

\* Number of entries, over all titles, whose lower-cased rating is label
CountOf(label) ==
    Cardinality({p \in UNION {{<<t, i>> : i \in DOMAIN data.feedback_on_papers[t]} :
                                 t \in DOMAIN data.feedback_on_papers} :
                    Lower(data.feedback_on_papers[p[1]][p[2]].rating) = label})

RecognisedCount ==
    CountOf("excellent") + CountOf("good") + CountOf("neutral")
        + CountOf("bad") + CountOf("poor")

RecognisedSum ==
    5 * CountOf("excellent") + 4 * CountOf("good") + 3 * CountOf("neutral")
        + 2 * CountOf("bad") + CountOf("poor")

\* avg is the number RecognisedSum / RecognisedCount
IsRecognisedMean(avg) ==
    /\ avg[2] > 0
    /\ avg[1] * RecognisedCount = RecognisedSum * avg[2]

\* C26: over string ratings, analyze_summary_feedback returns the mean of
\* the mapped values (excellent 5, good 4, neutral 3, bad 2, poor 1, case
\* ignored) of the recognised entries of all titles; other labels add to
\* neither the sum nor the count; with no recognised entry the average is
\* null and the message is the not-enough-feedback one.
C26_MeanOfRecognisedRatings ==
    (analysis.called /\ AllStrings) =>
        /\ ~analysis.raised
        /\ IF RecognisedCount = 0
           THEN /\ analysis.average_summary_rating = NoneAverage
                /\ analysis.message = NotEnoughFeedback
           ELSE IsRecognisedMean(analysis.average_summary_rating)

\* Recognised and unrecognised labels and a capitalised one, on two titles
C26_Witness ==
    /\ analysis.called
    /\ AllStrings
    /\ CountOf("meh") > 0
    /\ CountOf("good") > 1
    /\ DOMAIN data.feedback_on_papers = {"t1", "t2"}
    /\ \E i \in DOMAIN data.feedback_on_papers["t1"] :
           data.feedback_on_papers["t1"][i].rating = "Good"
    /\ analysis.average_summary_rating = <<RecognisedSum, RecognisedCount>>

\* C27: the 'shorter' suggestion is given exactly when the average is
\* below 2.8, the 'well-received' one exactly when it is above 4.0, and an
\* average in 2.8..4.0 (bounds included) gives the same not-enough-data
\* text as no parsed rating; avg_rating is the average when a rating was
\* parsed and null otherwise.
C27_SuggestionThresholds ==
    (suggestions.called /\ AllStrings) =>
        /\ ~suggestions.raised
        /\ suggestions.suggestion = SuggestShorter <=>
               (RecognisedCount > 0 /\ 10 * RecognisedSum < 28 * RecognisedCount)
        /\ suggestions.suggestion = SuggestKeep <=>
               (RecognisedCount > 0 /\ RecognisedSum > 4 * RecognisedCount)
        /\ suggestions.suggestion \in {SuggestShorter, SuggestKeep, NotEnoughData}
        /\ IF RecognisedCount = 0
           THEN suggestions.avg_rating = NoneAverage
           ELSE IsRecognisedMean(suggestions.avg_rating)

\* An average of exactly 2.8 (14 over 5 entries) falls in the band
C27_Witness ==
    /\ suggestions.called
    /\ AllStrings
    /\ RecognisedSum = 14
    /\ RecognisedCount = 5
    /\ suggestions.suggestion = NotEnoughData
    /\ IsRecognisedMean(suggestions.avg_rating)

\* C29: neither call raises, whatever ratings record_paper_feedback stored;
\* a rating that is no string counts as unrecognised.
C29_NonStringRatingsTolerated ==
    /\ analysis.called =>
           /\ ~analysis.raised
           /\ IF RecognisedCount = 0
              THEN analysis.average_summary_rating = NoneAverage
              ELSE IsRecognisedMean(analysis.average_summary_rating)
    /\ suggestions.called => ~suggestions.raised

\* ======================================================================
\* mas_paper_search/database/chroma_utils.py: ChromaDBManager, and
\* mas_paper_search/agents/reflection_agent.py: ReflectionAgent
\* ======================================================================

MaxChOps == 4

PaperIds == {"p1", "p2"}
MetaTitles == {"A", "B"}

\* d[k] = v on a dict
SetKey(d, k, v) == [x \in DOMAIN d \cup {k} |-> IF x = k THEN v ELSE d[x]]

\* ChromaDBManager.__new__ (lines 13-17): inst is cls._instance (0 is
\* None), n the number of objects made so far
ChromaDBManager_new(inst, n, initialized) ==
    IF inst = 0
    THEN [instance |-> n + 1, made |-> n + 1, initialized |-> FALSE]
    ELSE [instance |-> inst, made |-> n, initialized |-> initialized]

\* What creating the client, the embedding function and the collection does
InitOutcomes == {"ok", "raises"}

\* Mutant of ChromaDBManager_init: a failed initialisation is not marked
ChromaDBManager_init_retry(initialized, coll, attempts, outcome) ==
    IF initialized
    THEN [initialized |-> TRUE, collection |-> coll, attempts |-> attempts]
    ELSE IF outcome = "ok"
         THEN [initialized |-> TRUE, collection |-> "collection",
               attempts |-> attempts + 1]
         ELSE [initialized |-> FALSE, collection |-> "None",
               attempts |-> attempts + 1]

\* ChromaDBManager.__init__ (lines 19-54)
ChromaDBManager_init(initialized, coll, attempts, outcome) ==
    IF initialized
    THEN [initialized |-> TRUE, collection |-> coll, attempts |-> attempts]
    ELSE IF outcome = "ok"
         THEN [initialized |-> TRUE, collection |-> "collection",
               attempts |-> attempts + 1]
         ELSE [initialized |-> TRUE, collection |-> "None",
               attempts |-> attempts + 1]

\* get_collection() (lines 56-60) followed by the caller's `if not collection`
Usable(coll) == coll = "collection"

\* What collection.add does: "stored" for a new id; for an id the
\* collection already holds, ChromaDB either ignores the add ("ignored") or
\* raises a duplicate-id error ("rejected"), depending on its version;
\* "error" is any other failure of the store
AddOutcomes(ix, paper_id) ==
    IF paper_id \in DOMAIN ix THEN {"ignored", "rejected", "error"}
    ELSE {"stored", "error"}

\* add_paper_summary (lines 62-79)
AddPaperSummary(coll, ix, paper_id, summary_text, metadata, outcome) ==
    IF ~Usable(coll) THEN [ret |-> FALSE, index |-> ix]
    ELSE IF outcome = "stored"
         THEN [ret |-> TRUE,
               index |-> SetKey(ix, paper_id,
                                [document |-> summary_text, metadata |-> metadata])]
    ELSE IF outcome = "ignored" THEN [ret |-> TRUE, index |-> ix]
    ELSE [ret |-> FALSE, index |-> ix]

\* What collection.get and collection.update do
UpdateOutcomes == {"ok", "get_raises", "update_raises"}

\* rating and notes of a feedback call; "None" is None, "#4" the integer 4
Feedbacks == {<<"#4", "None">>, <<"None", "n">>}

\* add_user_feedback (lines 81-118)
AddUserFeedback(coll, ix, paper_id, rating, notes, now, outcome) ==
    IF ~Usable(coll) THEN [ret |-> FALSE, index |-> ix]
    ELSE IF outcome = "get_raises" THEN [ret |-> FALSE, index |-> ix]
    ELSE IF paper_id \notin DOMAIN ix THEN [ret |-> FALSE, index |-> ix]
    ELSE IF outcome = "update_raises" THEN [ret |-> FALSE, index |-> ix]
    ELSE LET m0 == ix[paper_id].metadata
             m1 == IF rating # "None" THEN SetKey(m0, "user_rating", rating) ELSE m0
             m2 == IF notes # "None" THEN SetKey(m1, "user_notes", notes) ELSE m1
             current_metadata == SetKey(m2, "feedback_timestamp", now)
         IN [ret |-> TRUE,
             index |-> [ix EXCEPT ![paper_id].metadata = current_metadata]]

\* What collection.query does
QueryOutcomes == {"ok", "raises"}

\* query_summaries returned None
QueryNone == [is_none |-> TRUE, results |-> <<>>]

\* processed_results for the matched ids (lines 133-145)
processed_results(ix, matched) ==
    LET ids == SelectSeq(<<"p1", "p2", "A">>, LAMBDA x : x \in matched)
    IN [is_none |-> FALSE,
        results |-> [i \in DOMAIN ids |->
                        [paper_id |-> ids[i], summary |-> ix[ids[i]].document,
                         metadata |-> ix[ids[i]].metadata, distance |-> "d"]]]

\* Mutant of QuerySummaries: an unusable index or a failed query gives an
\* empty list
QuerySummaries_empty_on_failure(coll, ix, matched, outcome) ==
    IF ~Usable(coll) \/ outcome = "raises" THEN processed_results(ix, {})
    ELSE processed_results(ix, matched)

\* query_summaries (lines 120-151); matched is what collection.query found
QuerySummaries(coll, ix, matched, outcome) ==
    IF ~Usable(coll) THEN QueryNone
    ELSE IF outcome = "raises" THEN QueryNone
    ELSE processed_results(ix, matched)

\* ---- ReflectionAgent.execute_task ----

NoData == [kind |-> "None"]
Failure(error_message) ==
    [success |-> FALSE, error_message |-> error_message, data |-> NoData]
Success(payload) == [success |-> TRUE, error_message |-> "None", data |-> payload]

ChromaNotAvailable == "ReflectionAgent: ChromaDB is not available."
FailedToStoreFeedback == "Failed to store feedback in ChromaDB."

StoreTasks ==
    {[action |-> "store_paper_summary", paper_id |-> p, summary_text |-> "s",
      metadata |-> [title |-> m]] : p \in PaperIds, m \in MetaTitles}
    \cup {[action |-> "store_paper_summary", paper_id |-> "absent",
           summary_text |-> "s", metadata |-> [title |-> "A"]],
          [action |-> "store_paper_summary", paper_id |-> "p1",
           summary_text |-> "", metadata |-> [title |-> "A"]]}

FeedbackTasks ==
    {[action |-> "store_user_feedback", paper_id |-> p, rating |-> f[1],
      notes |-> f[2]] : p \in PaperIds, f \in Feedbacks}
    \cup {[action |-> "store_user_feedback", paper_id |-> "None",
           rating |-> "#4", notes |-> "None"]}

QueryTasks ==
    {[action |-> "query_similar_papers", query_text |-> q] : q \in {"q", ""}}
    \cup {[action |-> "get_papers_by_rating", min_rating |-> r] :
             r \in {"#4", "None"}}

Tasks ==
    StoreTasks \cup FeedbackTasks \cup QueryTasks
        \cup {[action |-> "None"], [action |-> "bogus"]}

\* The store outcomes a task can meet
TaskOutcomes(ix, task) ==
    IF task.action = "store_paper_summary"
    THEN AddOutcomes(ix, IF task.paper_id = "absent" THEN task.metadata.title
                          ELSE task.paper_id)
    ELSE IF task.action = "store_user_feedback" THEN UpdateOutcomes
    ELSE QueryOutcomes

\* execute_task (lines 20-139)
ExecuteTask(coll, ix, task, matched, now, outcome) ==
    IF ~Usable(coll) THEN [out |-> Failure(ChromaNotAvailable), index |-> ix]
    ELSE IF task.action = "None"
    THEN [out |-> Failure("ReflectionAgent: 'action' not provided in task_input."),
          index |-> ix]
    ELSE IF task.action = "store_paper_summary"
    THEN IF task.summary_text = ""
         THEN [out |-> Failure("Missing 'summary_text' or 'metadata' for store_paper_summary."),
               index |-> ix]
         ELSE LET paper_id == IF task.paper_id = "absent" THEN task.metadata.title
                              ELSE task.paper_id
                  r == AddPaperSummary(coll, ix, paper_id, task.summary_text,
                                       task.metadata, outcome)
              IN IF r.ret
                 THEN [out |-> Success([kind |-> "stored", paper_id |-> paper_id,
                                        message |-> "Summary stored."]),
                       index |-> r.index]
                 ELSE [out |-> Failure("Failed to store summary in ChromaDB."),
                       index |-> r.index]
    ELSE IF task.action = "store_user_feedback"
    THEN IF task.paper_id = "None"
         THEN [out |-> Failure("Missing 'paper_id' for store_user_feedback."),
               index |-> ix]
         ELSE LET r == AddUserFeedback(coll, ix, task.paper_id, task.rating,
                                       task.notes, now, outcome)
              IN IF r.ret
                 THEN [out |-> Success([kind |-> "stored", paper_id |-> task.paper_id,
                                        message |-> "Feedback stored."]),
                       index |-> r.index]
                 ELSE [out |-> Failure(FailedToStoreFeedback), index |-> r.index]
    ELSE IF task.action = "query_similar_papers"
    THEN IF task.query_text = ""
         THEN [out |-> Failure("Missing 'query_text' for query_similar_papers."),
               index |-> ix]
         ELSE LET results == QuerySummaries(coll, ix, matched, outcome)
              IN IF ~results.is_none
                 THEN [out |-> Success([kind |-> "papers", papers |-> results.results]),
                       index |-> ix]
                 ELSE [out |-> Failure("Error querying similar papers from ChromaDB."),
                       index |-> ix]
    ELSE IF task.action = "get_papers_by_rating"
    THEN IF task.min_rating = "None"
         THEN [out |-> Failure("Missing 'min_rating' for get_papers_by_rating."),
               index |-> ix]
         ELSE LET results == QuerySummaries(coll, ix, matched, outcome)
              IN IF ~results.is_none
                 THEN [out |-> Success([kind |-> "papers", papers |-> results.results]),
                       index |-> ix]
                 ELSE [out |-> Failure("Error querying papers with rating >= 4."),
                       index |-> ix]
    ELSE [out |-> Failure("ReflectionAgent: Unknown action 'bogus'."), index |-> ix]

\* ---- calls ----

ChStep ==
    /\ ch_clock < MaxChOps
    /\ ch_clock' = ch_clock + 1
    /\ UNCHANGED <<ltmVars, pqVars, dVars, reVars>>

\* get_chromadb_manager() (lines 153-155), also run by ReflectionAgent()
get_chromadb_manager(outcome) ==
    /\ ChStep
    /\ LET n == ChromaDBManager_new(_instance, instances, _initialized)
           i == ChromaDBManager_init(n.initialized, collection, init_attempts, outcome)
       IN /\ _instance' = n.instance
          /\ instances' = n.made
          /\ _initialized' = i.initialized
          /\ collection' = i.collection
          /\ init_attempts' = i.attempts
          /\ ch_last' = [fn |-> "get_chromadb_manager", ret |-> n.instance]
    /\ UNCHANGED index

add_paper_summary(paper_id, metadata, outcome) ==
    /\ ChStep
    /\ _instance # 0
    /\ LET r == AddPaperSummary(collection, index, paper_id, "s", metadata, outcome)
       IN /\ index' = r.index
          /\ ch_last' = [fn |-> "add_paper_summary", paper_id |-> paper_id,
                         metadata |-> metadata, outcome |-> outcome, ret |-> r.ret]
    /\ UNCHANGED <<_instance, _initialized, collection, init_attempts, instances>>

add_user_feedback(paper_id, rating, notes, outcome) ==
    /\ ChStep
    /\ _instance # 0
    /\ LET r == AddUserFeedback(collection, index, paper_id, rating, notes,
                                ch_clock, outcome)
       IN /\ index' = r.index
          /\ ch_last' = [fn |-> "add_user_feedback", paper_id |-> paper_id,
                         rating |-> rating, notes |-> notes,
                         outcome |-> outcome, ret |-> r.ret]
    /\ UNCHANGED <<_instance, _initialized, collection, init_attempts, instances>>

query_summaries(matched, outcome) ==
    /\ ChStep
    /\ _instance # 0
    /\ ch_last' = [fn |-> "query_summaries", matched |-> matched,
                   outcome |-> outcome,
                   ret |-> QuerySummaries(collection, index, matched, outcome)]
    /\ UNCHANGED <<_instance, _initialized, collection, index, init_attempts, instances>>

execute_task(task, matched, outcome) ==
    /\ ChStep
    /\ _instance # 0
    /\ LET r == ExecuteTask(collection, index, task, matched, ch_clock, outcome)
       IN /\ index' = r.index
          /\ ch_last' = [fn |-> "execute_task", task |-> task, matched |-> matched,
                         outcome |-> outcome, out |-> r.out]
    /\ UNCHANGED <<_instance, _initialized, collection, init_attempts, instances>>

\* What a query can match: nothing, or all the entries
Matches(ix) == {{}, DOMAIN ix}

InitChroma ==
    /\ data = _default_memory_structure
    /\ LTMIdle
    /\ PQIdle
    /\ DailyIdle
    /\ ReIdle
    /\ ChIdle

NextChroma ==
    \/ \E outcome \in InitOutcomes : get_chromadb_manager(outcome)
    \/ \E paper_id \in PaperIds, m \in MetaTitles :
         \E outcome \in AddOutcomes(index, paper_id) :
             add_paper_summary(paper_id, [title |-> m], outcome)
    \/ \E paper_id \in PaperIds, f \in Feedbacks, outcome \in UpdateOutcomes :
         add_user_feedback(paper_id, f[1], f[2], outcome)
    \/ \E matched \in Matches(index), outcome \in QueryOutcomes :
         query_summaries(matched, outcome)
    \/ \E task \in Tasks, matched \in Matches(index) :
         \E outcome \in TaskOutcomes(index, task) :
             execute_task(task, matched, outcome)

SpecChroma == InitChroma /\ [][NextChroma]_vars

\* ---- properties of the ChromaDB index ----

\* This step is a call of fn
IsChCall(fn) == ch_clock' = ch_clock + 1 /\ ch_last'.fn = fn

\* C23: add_paper_summary is an upsert by paper id: a second add with an
\* id the index already holds (the store working) reports success and
\* leaves the entry with the second call's metadata, and no id ever has
\* two entries.
C23_AddIsUpsert ==
    [][(/\ IsChCall("add_paper_summary")
        /\ Usable(collection)
        /\ ch_last'.paper_id \in DOMAIN index
        /\ ch_last'.outcome # "error") =>
          /\ ch_last'.ret = TRUE
          /\ DOMAIN index' = DOMAIN index
          /\ index'[ch_last'.paper_id].metadata = ch_last'.metadata]_vars

\* The reports add_user_feedback gives for the same call when the backing
\* store is unavailable: no collection, or a collection whose calls fail
UnavailableReturns(paper_id, rating, notes, now) ==
    {AddUserFeedback("None", index, paper_id, rating, notes, now, "ok").ret,
     AddUserFeedback(collection, index, paper_id, rating, notes, now, "get_raises").ret}

UnavailableOutputs(task, now) ==
    {ExecuteTask("None", index, task, {}, now, "ok").out,
     ExecuteTask(collection, index, task, {}, now, "get_raises").out}

\* The part of C24 that holds: feedback for an absent id fails, adds no
\* entry and changes no entry
C24_AbsentIdChangesNothing ==
    [][/\ (/\ IsChCall("add_user_feedback")
           /\ ch_last'.paper_id \notin DOMAIN index) =>
             (ch_last'.ret = FALSE /\ index' = index)
       /\ (/\ IsChCall("execute_task")
           /\ ch_last'.task.action = "store_user_feedback"
           /\ ch_last'.task.paper_id \notin DOMAIN index) =>
             (~ch_last'.out.success /\ index' = index)]_vars

\* C24: add_user_feedback for an id the index does not hold fails with a
\* report that differs from the one given when the backing store is
\* unavailable, adds no entry and changes no entry.
C24_NotFoundDistinguishable ==
    [][/\ (/\ IsChCall("add_user_feedback")
           /\ Usable(collection)
           /\ ch_last'.outcome = "ok"
           /\ ch_last'.paper_id \notin DOMAIN index) =>
             /\ ch_last'.ret = FALSE
             /\ index' = index
             /\ ch_last'.ret \notin
                    UnavailableReturns(ch_last'.paper_id, ch_last'.rating,
                                       ch_last'.notes, ch_clock)
       /\ (/\ IsChCall("execute_task")
           /\ ch_last'.task.action = "store_user_feedback"
           /\ Usable(collection)
           /\ ch_last'.outcome = "ok"
           /\ ch_last'.task.paper_id \in PaperIds \ DOMAIN index) =>
             /\ ~ch_last'.out.success
             /\ index' = index
             /\ ch_last'.out \notin UnavailableOutputs(ch_last'.task, ch_clock)]_vars

\* The index could not be used by the call: no collection, or the query
\* raised
Unusable == ~Usable(collection) \/ ch_last.outcome = "raises"

\* C25: query_summaries returns None, and a ReflectionAgent query reports
\* success = False, when the collection is unavailable or the query call
\* fails; a usable index with no match gives an empty list and
\* success = True.
C25_UnusableIsNotEmpty ==
    /\ ch_last.fn = "query_summaries" =>
           IF Unusable THEN ch_last.ret.is_none
           ELSE /\ ~ch_last.ret.is_none
                /\ ch_last.matched = {} => ch_last.ret.results = <<>>
    /\ (/\ ch_last.fn = "execute_task"
        /\ ch_last.task \in {[action |-> "query_similar_papers", query_text |-> "q"],
                             [action |-> "get_papers_by_rating", min_rating |-> "#4"]}) =>
           IF Unusable THEN ~ch_last.out.success
           ELSE /\ ch_last.out.success
                /\ ch_last.matched = {} => ch_last.out.data.papers = <<>>

\* A query of a usable, non-empty index that matched nothing
C25_Witness ==
    /\ ch_last.fn = "execute_task"
    /\ ch_last.task.action = "query_similar_papers"
    /\ Usable(collection)
    /\ index # <<>>
    /\ ch_last.matched = {}
    /\ ch_last.out.success
    /\ ch_last.out.data.papers = <<>>

\* The call reported failure
ReportsFailure(last) ==
    CASE last.fn \in {"add_paper_summary", "add_user_feedback"} -> last.ret = FALSE
      [] last.fn = "query_summaries" -> last.ret.is_none
      [] last.fn = "execute_task" -> ~last.out.success
      [] OTHER -> TRUE

\* C30: ChromaDBManager is initialised at most once: every
\* get_chromadb_manager() returns the one instance, and after a failed
\* initialisation no call initialises again, every add_paper_summary and
\* add_user_feedback returns False, every query_summaries None, and every
\* ReflectionAgent task success = False.
C30_InitialisedOnce ==
    [][/\ init_attempts' <= 1
       /\ instances' <= 1
       /\ (IsChCall("get_chromadb_manager") /\ _instance # 0) =>
              ch_last'.ret = _instance
       /\ (collection = "None" /\ ch_clock' = ch_clock + 1) =>
              /\ collection' = "None"
              /\ init_attempts' = init_attempts
              /\ ReportsFailure(ch_last')]_vars

\* After a failed initialisation: a second get_chromadb_manager(), then a
\* ReflectionAgent task
C30_Witness ==
    /\ collection = "None"
    /\ init_attempts = 1
    /\ ch_clock >= 3
    /\ ch_last.fn = "execute_task"
    /\ ch_last.task.action = "store_paper_summary"
    /\ ~ch_last.out.success


====
